---- MODULE Spec2Model ----
(***************************************************************************)
(* The five cfn-lint rules of shared/lint/rules/custom_rules.py, each a    *)
(* match(cfn) over a parsed CloudFormation template.                       *)
(*                                                                         *)
(* Python values are records [t, v]: t is the Python type, v the payload.  *)
(* A str is a sequence of atoms (single characters where the code looks    *)
(* inside the string, one atom per constant otherwise), a dict a function  *)
(* from keys to values, a list a sequence of values.  An expression that   *)
(* raises evaluates to the value Raise(<exception>), which every operation *)
(* applied to it passes on, as an uncaught exception unwinds match.        *)
(***************************************************************************)
EXTENDS Integers, Sequences, FiniteSets, TLC

VARIABLES
    cfn,                    \* the template handed to match by the host linter
    _mandatory_parameters,  \* MandatoryParametersRule._mandatory_parameters
    _runtime,               \* Python38Rule._runtime
    result                  \* the last match call: its rule id and its outcome

vars == <<cfn, _mandatory_parameters, _runtime, result>>

----------------------------------------------------------------------------
(* Bounds *)

MaxEntries == 3     \* parameters plus resources of a template
MaxTargets == 2     \* targets of one AWS::Events::Rule
MaxTokens == 2      \* ${...} placeholders of one Fn::Sub string

----------------------------------------------------------------------------
(* Python values *)

None == [t |-> "None", v |-> <<>>]
PyStr(atoms) == [t |-> "str", v |-> atoms]
Text(s) == PyStr(<<s>>)
Dict(f) == [t |-> "dict", v |-> f]
EmptyDict == Dict(<<>>)
List(s) == [t |-> "list", v |-> s]
Raise(exc) == [t |-> "raise", v |-> <<exc>>]
IsRaise(x) == x.t = "raise"

\* obj.get(key, default)
Get(obj, key, default) ==
    IF IsRaise(obj) THEN obj
    ELSE IF obj.t = "dict"
         THEN IF key \in DOMAIN obj.v THEN obj.v[key] ELSE default
         ELSE Raise("AttributeError")

\* obj[key] for a str key
Item(obj, key) ==
    IF IsRaise(obj) THEN obj
    ELSE IF obj.t = "dict"
         THEN IF key \in DOMAIN obj.v THEN obj.v[key] ELSE Raise("KeyError")
         ELSE Raise("TypeError")

\* obj[0]
First(obj) ==
    IF IsRaise(obj) THEN obj
    ELSE IF obj.t = "list"
         THEN IF Len(obj.v) > 0 THEN obj.v[1] ELSE Raise("IndexError")
         ELSE IF obj.t = "str"
              THEN IF Len(obj.v) > 0 THEN PyStr(<<obj.v[1]>>) ELSE Raise("IndexError")
              ELSE IF obj.t = "dict"
                   THEN Raise("KeyError")
                   ELSE Raise("TypeError")

\* x in seq, for a Python list (or dict keys view) given as a sequence
InSeq(x, seq) == \E i \in 1..Len(seq) : seq[i] = x

\* what a match call ends with: the returned list, or an exception
Return(matches) == [status |-> "return", matches |-> matches, exc |-> ""]
Raised(e) == [status |-> "raise", matches |-> <<>>, exc |-> e.v[1]]

\* RuleMatch(path, message.format(*args))
RuleMatch(path, fmt, args) == [path |-> path, message |-> [fmt |-> fmt, args |-> args]]

----------------------------------------------------------------------------
(* The host linter's template API, as the rules call it *)

\* cfn.get_parameters().keys(): the parameter names, in template order
get_parameters(t) == t.Parameters

\* cfn.get_resources(type): the resources of that type, in template order
get_resources(t, type) ==
    SelectSeq(t.Resources, LAMBDA r : Get(r.value, "Type", None) = Text(type))

keys(items) == [i \in 1..Len(items) |-> items[i].key]

----------------------------------------------------------------------------
(* MandatoryParametersRule *)

MandatoryParametersMessage == "Missing parameter '{}'"

\* list.remove(x): drops the first element equal to x
RECURSIVE Remove(_, _)
Remove(list, x) ==
    IF list = <<>> THEN <<>>
    ELSE IF Head(list) = x THEN Tail(list)
    ELSE <<Head(list)>> \o Remove(Tail(list), x)

\* a loop that stops after the first template key
MandatoryParametersLoopFirstKey(names, i, mandatory_parameters) ==
    IF names # <<>> /\ InSeq(names[1], mandatory_parameters)
    THEN Remove(mandatory_parameters, names[1])
    ELSE mandatory_parameters

\* the for loop of match: every template key found in the list is removed
RECURSIVE MandatoryParametersLoop(_, _, _)
MandatoryParametersLoop(names, i, mandatory_parameters) ==
    IF i > Len(names) THEN mandatory_parameters
    ELSE IF InSeq(names[i], mandatory_parameters)
         THEN MandatoryParametersLoop(names, i + 1, Remove(mandatory_parameters, names[i]))
         ELSE MandatoryParametersLoop(names, i + 1, mandatory_parameters)

\* without the copy the loop edits the class attribute itself
no_deepcopy(attribute, edited) == edited

\* copy.deepcopy: the loop edits the copy, the class attribute keeps its value
deepcopy(attribute, edited) == attribute

\* match: the outcome, and the class attribute as the call leaves it
MandatoryParametersMatch(t, attribute) ==
    LET missing == MandatoryParametersLoop(get_parameters(t), 1, attribute)
    IN  [outcome |-> Return([i \in 1..Len(missing) |->
                        RuleMatch(<<Text("Parameters")>>,
                                  MandatoryParametersMessage, <<missing[i]>>)]),
         attribute |-> deepcopy(attribute, missing)]

----------------------------------------------------------------------------
(* Python38Rule *)

Python38Message == "Function is using {} runtime instead of {}"

RECURSIVE Python38Loop(_, _, _, _)
Python38Loop(items, i, matches, runtime) ==
    IF i > Len(items) THEN Return(matches)
    ELSE LET key == items[i].key
             value == items[i].value
             used == Get(Get(value, "Properties", None), "Runtime", None)
         IN  IF IsRaise(used) THEN Raised(used)
             ELSE IF used # runtime
                  THEN Python38Loop(items, i + 1,
                           Append(matches,
                               RuleMatch(<<Text("Resources"), key>>,
                                         Python38Message, <<used, runtime>>)),
                           runtime)
                  ELSE Python38Loop(items, i + 1, matches, runtime)

Python38Match(t, runtime) ==
    Python38Loop(get_resources(t, "AWS::Lambda::Function"), 1, <<>>, runtime)

----------------------------------------------------------------------------
(* LambdaLogGroupRule *)

LambdaLogGroupMessage == "Function {} does not have a corresponding log group"

\* the pattern \${(?P<func>[^}]+)} matches at position i of s
PatternAt(s, i) ==
    /\ i + 3 <= Len(s)
    /\ s[i] = "$"
    /\ s[i + 1] = "{"
    /\ s[i + 2] # "}"
    /\ \E k \in (i + 3)..Len(s) : s[k] = "}"

\* the group "func" of the match at i: up to the first "}"
PatternGroup(s, i) ==
    LET k == CHOOSE k \in (i + 3)..Len(s) :
                 s[k] = "}" /\ \A j \in (i + 3)..(k - 1) : s[j] # "}"
    IN  SubSeq(s, i + 2, k - 1)

\* re.search(pattern, string): the leftmost match's group, None without a
\* match, TypeError for a string that is no str
re_search(string) ==
    IF IsRaise(string) THEN string
    ELSE IF string.t # "str" THEN Raise("TypeError")
    ELSE LET s == string.v
             at == {i \in 1..Len(s) : PatternAt(s, i)}
         IN  IF at = {} THEN None
             ELSE LET first == CHOOSE i \in at : \A j \in at : i <= j
                  IN  PyStr(PatternGroup(s, first))

\* the scan of the log groups: List(known), or the exception it raises
RECURSIVE LogGroupScan(_, _, _)
LogGroupScan(log_groups, i, known) ==
    IF i > Len(log_groups) THEN List(known)
    ELSE LET resource == log_groups[i].value
             properties == Get(resource, "Properties", None)
         IN  IF properties.t # "dict" THEN Raise("TypeError")
             ELSE IF "LogGroupName" \notin DOMAIN properties.v
                  THEN LogGroupScan(log_groups, i + 1, known)
             ELSE LET log_group_name == Get(properties, "LogGroupName", None)
                  IN  IF log_group_name.t # "dict" \/ "Fn::Sub" \notin DOMAIN log_group_name.v
                      THEN LogGroupScan(log_groups, i + 1, known)
                      ELSE LET match == re_search(Item(log_group_name, "Fn::Sub"))
                           IN  IF IsRaise(match) THEN match
                               ELSE IF match # None
                                    THEN LogGroupScan(log_groups, i + 1, Append(known, match))
                                    ELSE LogGroupScan(log_groups, i + 1, known)

\* the scan of the functions against the known names
RECURSIVE LogGroupReport(_, _, _, _)
LogGroupReport(functions, i, known, matches) ==
    IF i > Len(functions) THEN matches
    ELSE LET function == functions[i]
         IN  IF ~InSeq(function, known)
             THEN LogGroupReport(functions, i + 1, known,
                      Append(matches, RuleMatch(<<Text("Resources"), function>>,
                                                LambdaLogGroupMessage, <<function>>)))
             ELSE LogGroupReport(functions, i + 1, known, matches)

LambdaLogGroupMatch(t) ==
    LET functions == get_resources(t, "AWS::Lambda::Function")
        log_groups == get_resources(t, "AWS::Logs::LogGroup")
        known == LogGroupScan(log_groups, 1, <<>>)
    IN  IF IsRaise(known) THEN Raised(known)
        ELSE Return(LogGroupReport(keys(functions), 1, known.v, <<>>))

----------------------------------------------------------------------------
(* LambdaESMDestinationConfig *)

LambdaESMMessage ==
    "Event Source Mapping {} does not have a DestinationConfig with OnFailure destination"

\* the chain without its {} defaults
OnFailureNoDefaults(resource) ==
    Get(Get(Get(resource, "Properties", None), "DestinationConfig", None),
        "OnFailure", None)

\* resource.get("Properties", {}).get("DestinationConfig", {}).get("OnFailure", None)
OnFailure(resource) ==
    Get(Get(Get(resource, "Properties", EmptyDict), "DestinationConfig", EmptyDict),
        "OnFailure", None)

RECURSIVE LambdaESMLoop(_, _, _)
LambdaESMLoop(sources, i, matches) ==
    IF i > Len(sources) THEN Return(matches)
    ELSE LET key == sources[i].key
             on_failure == OnFailure(sources[i].value)
         IN  IF IsRaise(on_failure) THEN Raised(on_failure)
             ELSE IF on_failure = None
                  THEN LambdaESMLoop(sources, i + 1,
                           Append(matches, RuleMatch(<<Text("Resources"), key>>,
                                                     LambdaESMMessage, <<key>>)))
                  ELSE LambdaESMLoop(sources, i + 1, matches)

LambdaESMDestinationConfigMatch(t) ==
    LambdaESMLoop(get_resources(t, "AWS::Lambda::EventSourceMapping"), 1, <<>>)

----------------------------------------------------------------------------
(* LambdaRuleInvokeConfig *)

LambdaRuleInvokeConfigMessage ==
    "Rule {} does not have a corresponding Event Invoke Config with OnFailure destination"

\* the function names with an EventInvokeConfig and OnFailure: List(names),
\* or the exception the scan raises
RECURSIVE InvokeConfigScan(_, _, _)
InvokeConfigScan(invoke_configs, i, invoke_config_functions) ==
    IF i > Len(invoke_configs) THEN List(invoke_config_functions)
    ELSE LET resource == invoke_configs[i].value
             on_failure == OnFailure(resource)
         IN  IF IsRaise(on_failure) THEN on_failure
             ELSE IF on_failure = None
                  THEN InvokeConfigScan(invoke_configs, i + 1, invoke_config_functions)
             ELSE LET ref == Item(Item(Item(resource, "Properties"), "FunctionName"), "Ref")
                  IN  IF IsRaise(ref) THEN ref
                      ELSE InvokeConfigScan(invoke_configs, i + 1,
                               Append(invoke_config_functions, ref))

\* the loop over the targets of one rule: List(matches), or the exception
RECURSIVE TargetsLoop(_, _, _, _, _, _)
TargetsLoop(key, targets, j, function_names, invoke_config_functions, matches) ==
    IF j > Len(targets) THEN List(matches)
    ELSE LET target == targets[j]
             get_att == Get(Get(target, "Arn", EmptyDict), "Fn::GetAtt", None)
         IN  IF IsRaise(get_att) THEN get_att
             ELSE IF get_att = None
                  THEN TargetsLoop(key, targets, j + 1, function_names,
                                   invoke_config_functions, matches)
             ELSE LET function_name == First(Item(Item(target, "Arn"), "Fn::GetAtt"))
                  IN  IF IsRaise(function_name) THEN function_name
                      ELSE IF ~InSeq(function_name, function_names)
                           THEN TargetsLoop(key, targets, j + 1, function_names,
                                            invoke_config_functions, matches)
                      ELSE IF ~InSeq(function_name, invoke_config_functions)
                           THEN TargetsLoop(key, targets, j + 1, function_names,
                                    invoke_config_functions,
                                    Append(matches,
                                        RuleMatch(<<Text("Resources"), key>>,
                                                  LambdaRuleInvokeConfigMessage, <<key>>)))
                           ELSE TargetsLoop(key, targets, j + 1, function_names,
                                            invoke_config_functions, matches)

\* the loop over the rules
RECURSIVE RulesLoop(_, _, _, _, _)
RulesLoop(rules, i, function_names, invoke_config_functions, matches) ==
    IF i > Len(rules) THEN Return(matches)
    ELSE LET key == rules[i].key
             resource == rules[i].value
             targets == Get(Get(resource, "Properties", EmptyDict), "Targets", List(<<>>))
         IN  IF IsRaise(targets) THEN Raised(targets)
             ELSE IF targets.t # "list" THEN Raised(Raise("TypeError"))
             ELSE LET found == TargetsLoop(key, targets.v, 1, function_names,
                                           invoke_config_functions, matches)
                  IN  IF IsRaise(found) THEN Raised(found)
                      ELSE RulesLoop(rules, i + 1, function_names,
                                     invoke_config_functions, found.v)

LambdaRuleInvokeConfigMatch(t) ==
    LET function_names == keys(get_resources(t, "AWS::Lambda::Function"))
        rules == get_resources(t, "AWS::Events::Rule")
        invoke_configs == get_resources(t, "AWS::Lambda::EventInvokeConfig")
        invoke_config_functions == InvokeConfigScan(invoke_configs, 1, <<>>)
    IN  IF IsRaise(invoke_config_functions) THEN Raised(invoke_config_functions)
        ELSE RulesLoop(rules, 1, function_names, invoke_config_functions.v, <<>>)

----------------------------------------------------------------------------
(* Templates: the inputs of match *)

\* Logical ids are given by position; properties refer to the first two.
LogicalIds == <<"A", "B", "C", "D", "E", "F">>
Id(i) == Text(LogicalIds[i])
Referred == {"A", "B"}

Resource(type, props) ==
    IF props = None THEN Dict([Type |-> Text(type)])
    ELSE Dict([Type |-> Text(type), Properties |-> props])

Ref(name) == Dict("Ref" :> Text(name))
GetAtt(name, attr) == Dict("Fn::GetAtt" :> List(<<Text(name), Text(attr)>>))
Sub(atoms) == Dict("Fn::Sub" :> PyStr(atoms))
Placeholder(name) == <<"$", "{", name, "}">>

Functions ==
    { Resource("AWS::Lambda::Function", p) :
        p \in { None, EmptyDict,
                Dict([Runtime |-> Text("python3.8")]),
                Dict([Runtime |-> Text("python3.7")]) } }

Tokens == {Placeholder(n) : n \in Referred}

RECURSIVE Concat(_)
Concat(pieces) == IF pieces = <<>> THEN <<>> ELSE Head(pieces) \o Concat(Tail(pieces))

\* a literal prefix, then up to MaxTokens placeholders
SubStrings ==
    { <<"/">> \o Concat(ts) : ts \in UNION { [1..n -> Tokens] : n \in 0..MaxTokens } }

LogGroups ==
    { Resource("AWS::Logs::LogGroup", p) :
        p \in { None, EmptyDict,
                Dict([LogGroupName |-> Text("/aws/lambda/name")]),
                Dict([LogGroupName |-> Ref("A")]) }
              \cup { Dict([LogGroupName |-> Sub(s)]) : s \in SubStrings } }

Destination == Dict([Destination |-> Text("arn:aws:sqs:queue")])

DestinationConfigs ==
    { EmptyDict,
      Dict([DestinationConfig |-> EmptyDict]),
      Dict([DestinationConfig |-> Dict([OnFailure |-> None])]),
      Dict([DestinationConfig |-> Dict([OnFailure |-> Destination])]) }

EventSourceMappings ==
    { Resource("AWS::Lambda::EventSourceMapping", p) : p \in {None} \cup DestinationConfigs }

FunctionNames == {Text("name")} \cup {Ref(n) : n \in Referred}

EventInvokeConfigs ==
    { Resource("AWS::Lambda::EventInvokeConfig", p) :
        p \in {None} \cup
              { Dict(dc.v @@ [FunctionName |-> fn]) :
                    dc \in DestinationConfigs \ {EmptyDict, Dict([DestinationConfig |-> EmptyDict])},
                    fn \in FunctionNames } }

TargetValues ==
    { Dict([Id |-> Text("target")]) }
    \cup { Dict([Id |-> Text("target"), Arn |-> arn]) :
             arn \in {Text("arn:aws:sns:topic"), Ref("A"), GetAtt("A", "Arn")} }

EventsRules ==
    { Resource("AWS::Events::Rule", p) :
        p \in {None, EmptyDict}
              \cup { Dict([Targets |-> List(ts)]) :
                       ts \in UNION { [1..n -> TargetValues] : n \in 0..MaxTargets } } }

Others == { Resource("AWS::SNS::Topic", None) }

ResourceValues ==
    Functions \cup LogGroups \cup EventSourceMappings \cup EventInvokeConfigs
    \cup EventsRules \cup Others

ParameterNames == {Text("Environment"), Text("Stage"), Text("Service")}

Distinct(s) == \A i, j \in 1..Len(s) : i # j => s[i] # s[j]

ParameterLists(n) == {q \in [1..n -> ParameterNames] : Distinct(q)}

\* the resources the rules that read one resource at a time tell apart
LocalValues == Functions \cup EventSourceMappings \cup Others

Template(ps, rs) ==
    [Parameters |-> ps,
     Resources |-> [i \in 1..Len(rs) |-> [key |-> Id(i), value |-> rs[i]]]]

----------------------------------------------------------------------------
(* The state machine: the host linter calls the rules on one template *)

NoCall == [rule |-> "", outcome |-> Return(<<>>)]

\* a template of at most MaxEntries parameters and resources, the classes
\* as loaded, no rule called yet
InitOf(values) ==
    /\ \E n \in 0..Cardinality(ParameterNames) :
         \E m \in 0..(MaxEntries - n) :
           \E ps \in ParameterLists(n) :
             \E rs \in [1..m -> values] :
               cfn = Template(ps, rs)
    /\ _mandatory_parameters = <<Text("Environment")>>
    /\ _runtime = Text("python3.8")
    /\ result = NoCall

Init == InitOf(ResourceValues)

InitLocal == InitOf(LocalValues)

MandatoryParameters ==
    /\ LET call == MandatoryParametersMatch(cfn, _mandatory_parameters)
       IN  /\ result' = [rule |-> "E9000", outcome |-> call.outcome]
           /\ _mandatory_parameters' = call.attribute
    /\ UNCHANGED <<cfn, _runtime>>

Python38 ==
    /\ result' = [rule |-> "E9001", outcome |-> Python38Match(cfn, _runtime)]
    /\ UNCHANGED <<cfn, _mandatory_parameters, _runtime>>

LambdaLogGroup ==
    /\ result' = [rule |-> "E9002", outcome |-> LambdaLogGroupMatch(cfn)]
    /\ UNCHANGED <<cfn, _mandatory_parameters, _runtime>>

LambdaESMDestinationConfig ==
    /\ result' = [rule |-> "E9003", outcome |-> LambdaESMDestinationConfigMatch(cfn)]
    /\ UNCHANGED <<cfn, _mandatory_parameters, _runtime>>

LambdaRuleInvokeConfig ==
    /\ result' = [rule |-> "E9004", outcome |-> LambdaRuleInvokeConfigMatch(cfn)]
    /\ UNCHANGED <<cfn, _mandatory_parameters, _runtime>>

Next ==
    \/ MandatoryParameters
    \/ Python38
    \/ LambdaLogGroup
    \/ LambdaESMDestinationConfig
    \/ LambdaRuleInvokeConfig

Spec == Init /\ [][Next]_vars

SpecLocal == InitLocal /\ [][Next]_vars

----------------------------------------------------------------------------
(* What the template says, read off its structure *)

Res == cfn.Resources
Indices == 1..Len(Res)
IsType(i, type) == Res[i].value.v.Type = Text(type)
HasProps(i) == "Properties" \in DOMAIN Res[i].value.v
Props(i) == Res[i].value.v.Properties
ResPath(i) == <<Text("Resources"), Res[i].key>>

Called(rule) == result.rule = rule
Returned == result.outcome.status = "return"
Matches == result.outcome.matches
Count(path) == Cardinality({j \in 1..Len(Matches) : Matches[j].path = path})
Reported(i) == Count(ResPath(i)) > 0

\* s contains the placeholder ${name}
ContainsPlaceholder(s, name) ==
    \E k \in 1..Len(s) :
        /\ k + Len(name) + 2 <= Len(s)
        /\ SubSeq(s, k, k + Len(name) + 2) = <<"$", "{">> \o name \o <<"}">>

\* some log group names function i in a placeholder of its Fn::Sub name
HasLogGroup(i) ==
    \E g \in Indices :
        /\ IsType(g, "AWS::Logs::LogGroup")
        /\ HasProps(g)
        /\ "LogGroupName" \in DOMAIN Props(g).v
        /\ LET name == Props(g).v.LogGroupName
           IN  /\ name.t = "dict"
               /\ "Fn::Sub" \in DOMAIN name.v
               /\ name.v["Fn::Sub"].t = "str"
               /\ ContainsPlaceholder(name.v["Fn::Sub"].v, Res[i].key.v)

\* resource i has a DestinationConfig.OnFailure value
HasOnFailure(i) ==
    /\ HasProps(i)
    /\ "DestinationConfig" \in DOMAIN Props(i).v
    /\ "OnFailure" \in DOMAIN Props(i).v.DestinationConfig.v
    /\ Props(i).v.DestinationConfig.v.OnFailure # None

\* the Runtime of function i is python3.8
UsesPython38(i) ==
    /\ HasProps(i)
    /\ "Runtime" \in DOMAIN Props(i).v
    /\ Props(i).v.Runtime = Text("python3.8")

IsFunction(f) == \E i \in Indices : IsType(i, "AWS::Lambda::Function") /\ Res[i].key = f

\* some EventInvokeConfig with OnFailure names f by Ref in FunctionName
ConfiguredBy(f) ==
    \E c \in Indices :
        /\ IsType(c, "AWS::Lambda::EventInvokeConfig")
        /\ HasOnFailure(c)
        /\ "FunctionName" \in DOMAIN Props(c).v
        /\ Props(c).v.FunctionName.t = "dict"
        /\ "Ref" \in DOMAIN Props(c).v.FunctionName.v
        /\ Props(c).v.FunctionName.v.Ref = f

TargetsOf(i) ==
    IF HasProps(i) /\ "Targets" \in DOMAIN Props(i).v THEN Props(i).v.Targets.v ELSE <<>>

\* the target's Arn is an Fn::GetAtt on a Lambda function of the template
LambdaTarget(target) ==
    /\ "Arn" \in DOMAIN target.v
    /\ target.v.Arn.t = "dict"
    /\ "Fn::GetAtt" \in DOMAIN target.v.Arn.v
    /\ IsFunction(target.v.Arn.v["Fn::GetAtt"].v[1])

\* a Lambda target whose function has no EventInvokeConfig with OnFailure
Offending(target) ==
    LambdaTarget(target) /\ ~ConfiguredBy(target.v.Arn.v["Fn::GetAtt"].v[1])

OffendingTargets(i) == {j \in 1..Len(TargetsOf(i)) : Offending(TargetsOf(i)[j])}

\* every value that is present has the type the rules read it as: no literal
\* ARN in a target, no literal FunctionName in an EventInvokeConfig
OnlyOmissions ==
    \A i \in Indices :
        /\ \A j \in 1..Len(TargetsOf(i)) :
               "Arn" \in DOMAIN TargetsOf(i)[j].v => TargetsOf(i)[j].v.Arn.t = "dict"
        /\ (IsType(i, "AWS::Lambda::EventInvokeConfig") /\ HasProps(i)
               /\ "FunctionName" \in DOMAIN Props(i).v)
           => Props(i).v.FunctionName.t = "dict"

RefsOnly ==
    \A i \in Indices :
        (IsType(i, "AWS::Lambda::EventInvokeConfig") /\ HasProps(i)
            /\ "FunctionName" \in DOMAIN Props(i).v)
        => Props(i).v.FunctionName.t = "dict"

----------------------------------------------------------------------------
(* Claims *)

\* C1: LambdaLogGroupRule.match reports a function if and only if no log
\* group has an Fn::Sub name containing the placeholder ${<function id>},
\* wherever in the name the placeholder stands.  Stated for the calls that
\* return.
C1_ReportedIffNoLogGroup ==
    (Called("E9002") /\ Returned) =>
        \A i \in Indices :
            Reported(i) <=> (IsType(i, "AWS::Lambda::Function") /\ ~HasLogGroup(i))

\* C2: on a template whose resources only omit Properties or optional keys,
\* every match returns a list and raises nothing.
C2_NeverRaises == OnlyOmissions => Returned

\* C3: LambdaRuleInvokeConfig.match reports an Events::Rule if and only if
\* one of its targets is an Fn::GetAtt on a Lambda function of the template
\* that no EventInvokeConfig with OnFailure references by Ref.
C3_ReportedIffOffendingTarget ==
    Called("E9004") =>
        \A i \in Indices :
            Reported(i) <=> (IsType(i, "AWS::Events::Rule") /\ OffendingTargets(i) # {})

\* C3 for the calls that return (an auxiliary fact, cited with C3)
C3_WhenReturned ==
    (Called("E9004") /\ Returned) =>
        \A i \in Indices :
            Reported(i) <=> (IsType(i, "AWS::Events::Rule") /\ OffendingTargets(i) # {})

\* C4: MandatoryParametersRule.match returns exactly one violation, at path
\* ["Parameters"], for the required name Environment when it is no key of
\* Parameters, and none when it is; other parameters and the order change
\* nothing.
C4_OnePerMissingName ==
    Called("E9000") =>
        /\ Returned
        /\ Matches =
             IF InSeq(Text("Environment"), cfn.Parameters) THEN <<>>
             ELSE <<RuleMatch(<<Text("Parameters")>>, "Missing parameter '{}'",
                              <<Text("Environment")>>)>>

C4_Witness ==
    /\ Called("E9000")
    /\ cfn.Parameters = <<Text("Stage"), Text("Environment")>>
    /\ Returned
    /\ Matches = <<>>

\* C5: Python38Rule.match reports a resource exactly once if it is a Lambda
\* function whose Runtime is not "python3.8" (or is absent), and never
\* otherwise.
C5_ReportedIffOtherRuntime ==
    Called("E9001") =>
        \A i \in Indices :
            Count(ResPath(i)) =
                IF IsType(i, "AWS::Lambda::Function") /\ ~UsesPython38(i) THEN 1 ELSE 0

\* C5 for the calls that return (an auxiliary fact, cited with C5)
C5_WhenReturned ==
    (Called("E9001") /\ Returned) =>
        \A i \in Indices :
            Count(ResPath(i)) =
                IF IsType(i, "AWS::Lambda::Function") /\ ~UsesPython38(i) THEN 1 ELSE 0

\* C6: LambdaESMDestinationConfig.match returns, and reports a resource
\* exactly once if it is an EventSourceMapping without a
\* DestinationConfig.OnFailure value, and never otherwise.
C6_ReportedIffNoOnFailure ==
    Called("E9003") =>
        /\ Returned
        /\ Len(Matches) = Cardinality({i \in Indices : Reported(i)})
        /\ \A i \in Indices :
               Count(ResPath(i)) =
                   IF IsType(i, "AWS::Lambda::EventSourceMapping") /\ ~HasOnFailure(i)
                   THEN 1 ELSE 0

C6_Witness ==
    /\ Called("E9003")
    /\ \E i, j \in Indices :
           /\ IsType(i, "AWS::Lambda::EventSourceMapping") /\ ~HasProps(i) /\ Reported(i)
           /\ IsType(j, "AWS::Lambda::EventSourceMapping") /\ HasOnFailure(j) /\ ~Reported(j)

\* C7: a match call leaves the template and the rules' configuration as they
\* were, and calling the same rule again gives the same outcome.
C7_Pure ==
    [][ /\ cfn' = cfn
        /\ _mandatory_parameters' = _mandatory_parameters
        /\ _runtime' = _runtime
        /\ (result'.rule = result.rule => result'.outcome = result.outcome) ]_vars

C7_Witness ==
    /\ Called("E9000")
    /\ InSeq(Text("Environment"), cfn.Parameters)
    /\ Matches = <<>>
    /\ _mandatory_parameters = <<Text("Environment")>>

\* C8: in LambdaRuleInvokeConfig.match a target that is no Fn::GetAtt on a
\* Lambda function is skipped without an exception, and the other targets
\* are still counted.  Stated for templates whose EventInvokeConfigs name
\* their function by Ref.
C8_OtherTargetsSkipped ==
    (Called("E9004") /\ RefsOnly) =>
        /\ Returned
        /\ \A i \in Indices :
               Count(ResPath(i)) =
                   IF IsType(i, "AWS::Events::Rule")
                   THEN Cardinality(OffendingTargets(i)) ELSE 0

\* C8 for the calls that return (an auxiliary fact, cited with C8 and C10)
C8_WhenReturned ==
    (Called("E9004") /\ Returned) =>
        \A i \in Indices :
            Count(ResPath(i)) =
                IF IsType(i, "AWS::Events::Rule")
                THEN Cardinality(OffendingTargets(i)) ELSE 0

InspectedTypes(rule) ==
    CASE rule = "E9001" -> {"AWS::Lambda::Function"}
      [] rule = "E9002" -> {"AWS::Lambda::Function"}
      [] rule = "E9003" -> {"AWS::Lambda::EventSourceMapping"}
      [] rule = "E9004" -> {"AWS::Events::Rule"}
      [] OTHER -> {}

PathsValid ==
    \A j \in 1..Len(Matches) :
        \/ Called("E9000") /\ Matches[j].path = <<Text("Parameters")>>
        \/ \E i \in Indices :
               /\ Matches[j].path = ResPath(i)
               /\ \E type \in InspectedTypes(result.rule) : IsType(i, type)

\* C9: every violation's path is ["Parameters"] (E9000) or ["Resources", K]
\* for a resource K of the type the rule inspects; so a rule returns an empty
\* list on a template without resources of its type.  Stated for templates
\* that only omit keys.
C9_PathsAndEmptyResult ==
    /\ PathsValid
    /\ (OnlyOmissions /\ result.rule \in {"E9001", "E9002", "E9003", "E9004"}
          /\ ~\E i \in Indices : \E type \in InspectedTypes(result.rule) : IsType(i, type))
       => (Returned /\ Matches = <<>>)

\* the first half of C9 alone (an auxiliary fact, cited with C9)
C9_Paths == PathsValid

\* C10: LambdaRuleInvokeConfig.match returns one violation per offending
\* target: a rule whose k targets all point to Lambda functions without an
\* EventInvokeConfig with OnFailure is reported exactly k times, with one
\* path and one message.
C10_OnePerOffendingTarget ==
    Called("E9004") =>
        \A i \in Indices :
            (/\ IsType(i, "AWS::Events::Rule")
             /\ TargetsOf(i) # <<>>
             /\ Cardinality(OffendingTargets(i)) = Len(TargetsOf(i)))
            => /\ Count(ResPath(i)) = Len(TargetsOf(i))
               /\ \A j, k \in 1..Len(Matches) :
                      Matches[j].path = Matches[k].path
                          => Matches[j].message = Matches[k].message

\* the second half of C10: the other rules report a path at most once, save
\* that E9004 repeats a rule's path (an auxiliary fact, cited with C10)
C10_OthersAtMostOnce ==
    ~Called("E9004") =>
        \A j, k \in 1..Len(Matches) :
            Matches[j].path = Matches[k].path /\ Matches[j].message = Matches[k].message
                => j = k
====
